---- MODULE Spec2Model ----
(***************************************************************************)
(* Model of local_code_ai_agent.py: a human-in-the-loop pipeline that asks *)
(* a local model for a plan, asks again for code, saves both, and runs the *)
(* saved script after a second approval.                                   *)
(*                                                                         *)
(* Text is a sequence of one-character strings; a long fixed literal of    *)
(* the source is one element.  A path is text too.  The file system maps   *)
(* absolute paths to the file's content, or to NoFile.                     *)
(***************************************************************************)
EXTENDS Integers, Sequences, FiniteSets, TLC

\* ------------------------------------------------------------------ bounds
MaxRuns == 2

\* the texts of the test bench are made of at most MaxPieces pieces
MaxPieces == 5

\* ------------------------------------------------------- inputs of the runs
Prog == <<"a", "g", "e", "n", "t", ".", "p", "y">>

Requests == { <<>>, <<"r">> }

Argvs == { <<Prog>> } \cup { <<Prog, r>> : r \in Requests }

Dirs == { <<"/", "a">>, <<"/", "b">> }

\* the backquote character of a Markdown fence
BQ == "BQ"

Fence == <<BQ, BQ, BQ>>

PyFence == Fence \o <<"p", "y", "t", "h", "o", "n">>

\* what the model subprocess can print: its stdout and its stderr
PlanOutputs ==
    { [out |-> <<" ", "1", "\n">>, err |-> <<>>],
      [out |-> <<" ", "1", "\n">>, err |-> <<"w">>] }

CodeOutputs ==
    { [out |-> <<"c">>, err |-> <<>>],
      [out |-> PyFence \o <<"\n", "d", "d", "\n">> \o Fence, err |-> <<"w">>] }

Replies == { <<"y">>, <<"Y">>, <<" ", "y", "\t">>, <<"n">>,
             <<"y", "e", "s">>, <<>> }

None == "None"

\* --------------------------------------------------------- text operations
Whitespace == { " ", "\n", "\t" }

RECURSIVE LStrip(_)
LStrip(s) ==
    IF s # <<>> /\ Head(s) \in Whitespace THEN LStrip(Tail(s)) ELSE s

RECURSIVE RStrip(_)
RStrip(s) ==
    IF s # <<>> /\ s[Len(s)] \in Whitespace
    THEN RStrip(SubSeq(s, 1, Len(s) - 1))
    ELSE s

\* str.strip()
Strip(s) == RStrip(LStrip(s))

LowerChar(c) == IF c = "Y" THEN "y" ELSE c

\* str.lower()
Lower(s) == [i \in 1..Len(s) |-> LowerChar(s[i])]

StartsWith(s, pat) ==
    Len(s) >= Len(pat) /\ SubSeq(s, 1, Len(pat)) = pat

\* str.endswith(pat)
EndsWith(s, pat) ==
    Len(s) >= Len(pat) /\ SubSeq(s, Len(s) - Len(pat) + 1, Len(s)) = pat

\* str.replace(pat, ""): leftmost non-overlapping occurrences are removed
RECURSIVE Remove(_, _)
Remove(s, pat) ==
    IF Len(s) < Len(pat) THEN s
    ELSE IF StartsWith(s, pat)
         THEN Remove(SubSeq(s, Len(pat) + 1, Len(s)), pat)
         ELSE <<Head(s)>> \o Remove(Tail(s), pat)

\* the clean-up with strip() first and the replacements after it
clean_code_strip_first(code_response) ==
    Remove(Remove(Strip(code_response), PyFence), Fence)

\* the clean-up without the replacement of the plain fence
clean_code_tagged_only(code_response) == Strip(Remove(code_response, PyFence))

\* the clean-up code_phase applies to the answer of the model
clean_code(code_response) == Strip(Remove(Remove(code_response, PyFence), Fence))

\* ------------------------------------------------------------------- paths
ScriptName == <<"g", "s", ".", "p", "y">>

BundleName == <<"g", "p", ".", "j", "s", "o", "n">>

PyExt == <<".", "p", "y">>

\* os.path.abspath: a relative path is joined to the working directory
abspath(dir, path) ==
    IF path # <<>> /\ Head(path) = "/" THEN path ELSE dir \o <<"/">> \o path

Paths == { abspath(d, n) : d \in Dirs, n \in {ScriptName, BundleName} }


\* ------------------------------------------------------------- exceptions
\* the part of the class hierarchy of Python the program meets
ExcParent(e) ==
    CASE e = "FileNotFoundError"  -> "OSError"
      [] e = "OSError"            -> "Exception"
      [] e = "CalledProcessError" -> "Exception"
      [] e = "Exception"          -> "BaseException"
      [] e = "SystemExit"         -> "BaseException"
      [] OTHER                    -> None

RECURSIVE IsSubclass(_, _)
IsSubclass(e, c) ==
    IF e = c THEN TRUE
    ELSE IF e = None THEN FALSE
    ELSE IsSubclass(ExcParent(e), c)

\* an except clause of one of the classes in handlers takes exception e
Caught(e, handlers) == \E h \in handlers : IsSubclass(e, h)

\* the result of a call: it returns a value, exits the process, or raises
Return(v, lg) == [kind |-> "return", value |-> v, code |-> 0, exc |-> None, log |-> lg]

Exit(c, lg) == [kind |-> "exit", value |-> <<>>, code |-> c, exc |-> None, log |-> lg]

Raise(e, lg) == [kind |-> "raise", value |-> <<>>, code |-> 1, exc |-> e, log |-> lg]

\* ------------------------------------------------------------ Model Invoker
QueryHandlers == { "FileNotFoundError", "Exception" }

\* what the ollama subprocess does in one call: Popen or communicate raises
\* (fault), or the process ends with a return code, its stdout and stderr
ProcBehaviours(outs) ==
    { [fault |-> f, returncode |-> 0 - 1, out |-> <<>>, err |-> <<>>] :
        f \in { "FileNotFoundError", "OSError" } }
    \cup
    { [fault |-> None, returncode |-> rc, out |-> o.out, err |-> o.err] :
        rc \in { 0, 1 }, o \in outs }

\* query_ollama without the test of the return code (lines 44-47)
query_ollama_no_returncode(b) ==
    IF b.fault # None
    THEN Exit(1, <<"Error while querying Ollama">>)
    ELSE Return(Strip(b.out), <<>>)

\* a query_ollama that takes any text on stderr as a failure
query_ollama_stderr_fatal(b) ==
    IF b.fault # None
    THEN Exit(1, <<"Error while querying Ollama">>)
    ELSE IF b.err # <<>> \/ b.returncode # 0
    THEN Exit(1, <<"[ERROR] Ollama process exited with code">>)
    ELSE Return(Strip(b.out), <<>>)

\* query_ollama, lines 25-56
query_ollama(b) ==
    IF b.fault # None
    THEN IF IsSubclass(b.fault, "FileNotFoundError")
              /\ "FileNotFoundError" \in QueryHandlers
         THEN Exit(1, <<"Error: Ollama not found">>)
         ELSE IF Caught(b.fault, QueryHandlers)
         THEN Exit(1, <<"Error while querying Ollama">>)
         ELSE Raise(b.fault, <<>>)
    ELSE LET dbg == IF b.err # <<>> THEN <<"[DEBUG] Ollama STDERR">> ELSE <<>> IN
         IF b.returncode # 0
         THEN \* sys.exit(1) inside the try: SystemExit passes both handlers
              IF Caught("SystemExit", QueryHandlers)
              THEN Exit(1, dbg \o <<"[ERROR] Ollama process exited with code",
                                    "Error while querying Ollama">>)
              ELSE Exit(1, dbg \o <<"[ERROR] Ollama process exited with code">>)
         ELSE Return(Strip(b.out), dbg)

\* ------------------------------------------------------------------ prompts
\* the fixed planning instruction, as one element of a text
PLAN_SYSTEM_PROMPT == "PLAN_SYSTEM_PROMPT"

\* a prompt with the request stripped of the whitespace around it
plan_prompt_stripped(request) ==
    <<PLAN_SYSTEM_PROMPT, "\n", "\n", "User request:", "\n">>
    \o Strip(request) \o <<"\n", "\n", "Plan:">>

plan_prompt(request) ==
    <<PLAN_SYSTEM_PROMPT, "\n", "\n", "User request:", "\n">>
    \o request \o <<"\n", "\n", "Plan:">>

code_prompt(plan, request) ==
    <<"You are an AI that generates Python code", "\n", "Plan:", "\n">>
    \o plan \o <<"\n", "\n", "User request:", "\n">>
    \o request \o <<"\n", "\n", "Generate a clean, executable Python script", "\n",
                    "Ensure it works within the current directory", "\n", "\n",
                    "Python Code:", "\n">>

\* ------------------------------------------------------------------- files
Absent == [exists |-> FALSE, data |-> <<>>]

File(d) == [exists |-> TRUE, data |-> d]

\* open(filename, "r+"): the text goes over the start of what the file
\* holds, and what lies beyond it stays
UpdateMode(old, text) == text \o SubSeq(old, Len(text) + 1, Len(old))

\* open(filename, "w") truncates; the one write puts text at offset 0
WriteMode(old, text) == text

\* json.dumps of a str, of the characters the model has
JsonChar(c) ==
    CASE c = "\n" -> <<"\\", "n">>
      [] c = "\t" -> <<"\\", "t">>
      [] OTHER    -> <<c>>

RECURSIVE JsonEscape(_)
JsonEscape(s) == IF s = <<>> THEN <<>> ELSE JsonChar(Head(s)) \o JsonEscape(Tail(s))

JsonStr(s) == <<"\"">> \o JsonEscape(s) \o <<"\"">>

\* json.dump(data, f, indent=4) of the three-field bundle
bundle_json(request, plan, code) ==
    <<"{", "\n", "    ", "\"user_request\": ">> \o JsonStr(request)
    \o <<",", "\n", "    ", "\"plan\": ">> \o JsonStr(plan)
    \o <<",", "\n", "    ", "\"generated_code\": ">> \o JsonStr(code)
    \o <<"\n", "}">>

\* how a write of text over the file old can end: done; open() raised and the
\* file is as it was; or a write raised after the truncation and only the
\* first n characters of the text are in the file, n one of cuts
WriteOutcomes(old, text, cuts) ==
    { [ok |-> TRUE, opened |-> TRUE, file |-> File(WriteMode(old.data, text))] }
    \cup { [ok |-> FALSE, opened |-> FALSE, file |-> old] }
    \cup { [ok |-> FALSE, opened |-> TRUE,
            file |-> File(WriteMode(old.data, SubSeq(text, 1, n)))] :
             n \in cuts \cap 0..(Len(text) - 1) }

\* ------------------------------------------------------------------ events
\* what a run does that can be seen from outside it, in the order it does it:
\* a call of a stage, a prompt, a child process started or ended, a file
\* opened for writing or closed
Ev(ev, of) == [ev |-> ev, of |-> of]

\* a query_ollama that starts the child and does not wait for it
query_events_nowait(stage, b) ==
    <<Ev("call", stage)>>
    \o (IF b.fault = "FileNotFoundError" THEN <<>> ELSE <<Ev("start", stage)>>)

\* one call of query_ollama: Popen starts the child unless the executable is
\* missing; communicate returns when the child has ended; when communicate
\* raises, nobody waits for the child
query_events(stage, b) ==
    <<Ev("call", stage)>>
    \o (IF b.fault = "FileNotFoundError" THEN <<>>
        ELSE IF b.fault # None THEN <<Ev("start", stage)>>
        ELSE <<Ev("start", stage), Ev("end", stage)>>)

\* one save: the with statement closes the file it opened, whether the write
\* raised or not
save_events(what, w) ==
    <<Ev("call", what)>>
    \o (IF w.opened THEN <<Ev("open", what), Ev("close", what)>> ELSE <<>>)

\* one call of execute_script; run is what it handed to subprocess.run, which
\* returns or raises when the child has ended
run_events(run) ==
    <<Ev("call", "exec")>>
    \o (IF run.launched THEN <<Ev("start", "exec"), Ev("end", "exec")>> ELSE <<>>)


\* ------------------------------------------------------------------- state
VARIABLES
    runs,          \* how many times the program has been started
    argv,          \* sys.argv of the current run
    cwd,           \* os.getcwd() of the current run
    pc,            \* where main is
    exit_code,     \* the exit code of the process, NotExited while it runs
    user_request,  \* main's user_request
    plan_text,     \* main's plan_text
    code_text,     \* main's code_text
    fs,            \* the files: absolute path -> file
    reply,         \* the line input() returned at the latest prompt
    log,           \* the lines the run has printed, by their fixed part
    model_calls,   \* the calls of query_ollama of the run
    writes,        \* the files the run has opened for writing, and how it went
    executed,      \* what execute_script handed to subprocess.run
    last_saved,    \* the latest call of save_code_to_file, over all runs
    saves,         \* (cwd, path) of every call of save_code_to_file
    trace,         \* the events of the run
    t_in,          \* test bench: the stage under test and its inputs
    t_out          \* test bench: what the stage has produced so far

vars == << runs, argv, cwd, pc, exit_code, user_request, plan_text, code_text,
           fs, reply, log, model_calls, writes, executed, last_saved,
           saves, trace, t_in, t_out >>

\* the test bench of the stages
bench == << t_in, t_out >>

\* the bench is not in use
NoBench == [fn |-> "none", request |-> <<>>, opener |-> <<>>, text |-> <<>>]

NotExited == 0 - 1

NoReply == <<"<none>">>

NotExecuted ==
    [attempted |-> FALSE, launched |-> FALSE, path |-> <<>>, file |-> Absent,
     returncode |-> 0]

NeverSaved ==
    [valid |-> FALSE, ok |-> FALSE, path |-> <<>>, code |-> <<>>, before |-> Absent]

Terminal == { "Aborted", "Done", "Fatal", "Crashed" }

\* the state of a process that has just been started
StartOfRun(a, d) ==
    /\ argv' = a
    /\ cwd' = d
    /\ pc' = "Start"
    /\ exit_code' = NotExited
    /\ user_request' = <<>>
    /\ plan_text' = <<>>
    /\ code_text' = <<>>
    /\ reply' = NoReply
    /\ log' = <<>>
    /\ model_calls' = <<>>
    /\ writes' = <<>>
    /\ executed' = NotExecuted
    /\ trace' = <<>>

Init ==
    /\ runs = 1
    /\ argv \in Argvs
    /\ cwd \in Dirs
    /\ pc = "Start"
    /\ exit_code = NotExited
    /\ user_request = <<>>
    /\ plan_text = <<>>
    /\ code_text = <<>>
    /\ fs = [p \in Paths |-> Absent]
    /\ reply = NoReply
    /\ log = <<>>
    /\ model_calls = <<>>
    /\ writes = <<>>
    /\ executed = NotExecuted
    /\ last_saved = NeverSaved
    /\ saves = {}
    /\ trace = <<>>
    /\ t_in = NoBench
    /\ t_out = <<>>

\* a call ended the process: sys.exit(code), or an exception nobody caught
Halt(r) ==
    /\ pc' = IF r.kind = "raise" THEN "Crashed" ELSE "Fatal"
    /\ exit_code' = r.code

\* main, lines 153-161
main_start ==
    /\ pc = "Start"
    /\ IF Len(argv) < 2
       THEN /\ log' = Append(log, "Usage")
            /\ pc' = "Fatal"
            /\ exit_code' = 1
            /\ UNCHANGED user_request
       ELSE /\ user_request' = argv[2]
            /\ log' = Append(log, "[INFO] Working in directory")
            /\ pc' = "Planning"
            /\ UNCHANGED exit_code
    /\ UNCHANGED << runs, argv, cwd, plan_text, code_text, fs, reply,
                    model_calls, writes, executed, last_saved, saves, trace,
                    bench >>

Call(stage, prompt, b, r) ==
    [stage |-> stage, prompt |-> prompt, fault |-> b.fault,
     returncode |-> b.returncode, out |-> b.out, err |-> b.err,
     kind |-> r.kind, value |-> r.value]

\* plan_phase hands back what query_ollama returned (lines 66-67)
plan_response(result) == result

\* a main that asks for the plan again when the call failed
plan_phase_retry ==
    /\ pc = "Planning"
    /\ Len(model_calls) < 3
    /\ \E b \in ProcBehaviours(PlanOutputs) :
         LET full_prompt == plan_prompt(user_request)
             r == query_ollama(b)
             lg == log \o <<"[INFO] Generating plan with Ollama...">> \o r.log
         IN /\ model_calls' = Append(model_calls, Call("plan", full_prompt, b, r))
            /\ trace' = trace \o query_events("plan", b)
            /\ IF r.kind = "return"
               THEN /\ plan_text' = plan_response(r.value)
                    /\ log' = lg \o <<"=== PLAN PHASE OUTPUT ===">>
                    /\ pc' = "AwaitPlanApproval"
               ELSE /\ log' = lg
                    /\ pc' = "Planning"
                    /\ UNCHANGED plan_text
            /\ UNCHANGED exit_code
    /\ UNCHANGED << runs, argv, cwd, user_request, code_text, fs, reply,
                    writes, executed, last_saved, saves, bench >>

\* main, lines 164-167, with plan_phase and its query_ollama
plan_phase ==
    /\ pc = "Planning"
    /\ \E b \in ProcBehaviours(PlanOutputs) :
         LET full_prompt == plan_prompt(user_request)
             r == query_ollama(b)
             lg == log \o <<"[INFO] Generating plan with Ollama...">> \o r.log
         IN /\ model_calls' = Append(model_calls, Call("plan", full_prompt, b, r))
            /\ trace' = trace \o query_events("plan", b)
            /\ IF r.kind = "return"
               THEN /\ plan_text' = plan_response(r.value)
                    /\ log' = lg \o <<"=== PLAN PHASE OUTPUT ===">>
                    /\ pc' = "AwaitPlanApproval"
                    /\ UNCHANGED exit_code
               ELSE /\ Halt(r)
                    /\ log' = lg
                    /\ UNCHANGED plan_text
    /\ UNCHANGED << runs, argv, cwd, user_request, code_text, fs, reply,
                    writes, executed, last_saved, saves, bench >>

\* the test without strip(): input(...).lower()
Approved_unstripped(line) == Lower(line) = <<"y">>

\* a test that takes any line that starts with y
Approved_startswith(line) == StartsWith(Lower(Strip(line)), <<"y">>)

\* the test both prompts apply to the line read: input(...).strip().lower()
Approved(line) == Lower(Strip(line)) = <<"y">>

\* a first prompt that asks again until the answer is an approval
confirm_plan_reprompt ==
    /\ pc = "AwaitPlanApproval"
    /\ trace' = IF reply = NoReply THEN Append(trace, Ev("prompt", "plan"))
                ELSE trace
    /\ \E line \in Replies :
         /\ reply' = line
         /\ pc' = IF Approved(line) THEN "CodeGen" ELSE "AwaitPlanApproval"
    /\ UNCHANGED << runs, argv, cwd, exit_code, user_request, plan_text,
                    code_text, fs, log, model_calls, writes, executed,
                    last_saved, saves, bench >>

\* main, lines 169-172
confirm_plan ==
    /\ pc = "AwaitPlanApproval"
    /\ trace' = Append(trace, Ev("prompt", "plan"))
    /\ \E line \in Replies :
         /\ reply' = line
         /\ IF Approved(line)
            THEN /\ pc' = "CodeGen"
                 /\ UNCHANGED << exit_code, log >>
            ELSE /\ log' = Append(log, "[INFO] User aborted after Plan Phase.")
                 /\ pc' = "Aborted"
                 /\ exit_code' = 0
    /\ UNCHANGED << runs, argv, cwd, user_request, plan_text, code_text, fs,
                    model_calls, writes, executed, last_saved, saves, bench >>

\* main, lines 175-178, with code_phase and its query_ollama
code_phase ==
    /\ pc = "CodeGen"
    /\ \E b \in ProcBehaviours(CodeOutputs) :
         LET full_prompt == code_prompt(plan_text, user_request)
             r == query_ollama(b)
             lg == log \o <<"[INFO] Generating Python code with Ollama...">> \o r.log
         IN /\ model_calls' = Append(model_calls, Call("code", full_prompt, b, r))
            /\ trace' = trace \o query_events("code", b)
            /\ IF r.kind = "return"
               THEN /\ code_text' = clean_code(r.value)
                    /\ log' = lg \o <<"=== CODE PHASE OUTPUT ===">>
                    /\ pc' = "Persisting"
                    /\ UNCHANGED exit_code
               ELSE /\ Halt(r)
                    /\ log' = lg
                    /\ UNCHANGED code_text
    /\ UNCHANGED << runs, argv, cwd, user_request, plan_text, fs, reply,
                    writes, executed, last_saved, saves, bench >>

\* an except clause that takes a missing directory only
SavePromptHandlers_narrow == { "FileNotFoundError" }

\* the except clauses of save_prompt_to_file (line 84)
SavePromptHandlers == { "Exception" }

\* main, line 181, with save_prompt_to_file; open() takes the relative name,
\* which the system resolves against the working directory
save_prompt_to_file ==
    /\ pc = "Persisting"
    /\ LET filename == abspath(cwd, BundleName)
           data == bundle_json(user_request, plan_text, code_text)
       IN \E w \in WriteOutcomes(fs[filename], data, {0}) :
            /\ fs' = [fs EXCEPT ![filename] = w.file]
            /\ writes' = Append(writes, [path |-> filename, ok |-> w.ok])
            /\ trace' = trace \o save_events("bundle", w)
            /\ IF w.ok
               THEN /\ log' = Append(log, "[INFO] Prompts saved to")
                    /\ pc' = "PersistingScript"
                    /\ UNCHANGED exit_code
               ELSE IF Caught("OSError", SavePromptHandlers)
               THEN /\ log' = Append(log, "[ERROR] Could not save prompts to file")
                    /\ pc' = "PersistingScript"
                    /\ UNCHANGED exit_code
               ELSE /\ Halt(Raise("OSError", <<>>))
                    /\ UNCHANGED log
    /\ UNCHANGED << runs, argv, cwd, user_request, plan_text, code_text,
                    reply, model_calls, executed, last_saved, saves, bench >>

\* the except clauses of save_code_to_file (line 128)
SaveCodeHandlers == { "Exception" }

\* main's generated_filename (line 184)
generated_filename == ScriptName

\* a script path that does not depend on the working directory
script_filename_fixed(dir, filename) == abspath(<<"/", "a">>, ScriptName)

\* line 122: the name the caller passed is dropped for the fixed one
script_filename(dir, filename) == abspath(dir, ScriptName)

\* main, lines 184-185, with save_code_to_file
save_code_to_file ==
    /\ pc = "PersistingScript"
    /\ LET filename == script_filename(cwd, generated_filename)
           text == code_text \o <<"\n">>
       IN \E w \in WriteOutcomes(fs[filename], text, 0..Len(text)) :
            /\ fs' = [fs EXCEPT ![filename] = w.file]
            /\ writes' = Append(writes, [path |-> filename, ok |-> w.ok])
            /\ last_saved' = [valid |-> TRUE, ok |-> w.ok, path |-> filename,
                              code |-> code_text, before |-> fs[filename]]
            /\ saves' = saves \cup { [cwd |-> cwd, path |-> filename] }
            /\ trace' = trace \o save_events("script", w)
            /\ IF w.ok
               THEN /\ log' = Append(log, "[INFO] Code saved to")
                    /\ pc' = "AwaitExecApproval"
                    /\ UNCHANGED exit_code
               ELSE IF Caught("OSError", SaveCodeHandlers)
               THEN /\ log' = Append(log, "[ERROR] Could not write to")
                    /\ pc' = "AwaitExecApproval"
                    /\ UNCHANGED exit_code
               ELSE /\ Halt(Raise("OSError", <<>>))
                    /\ UNCHANGED log
    /\ UNCHANGED << runs, argv, cwd, user_request, plan_text, code_text,
                    reply, model_calls, executed, bench >>

\* the second prompt without its sys.exit(0): a refusal is logged and the
\* run goes on
confirm_code_no_exit ==
    /\ pc = "AwaitExecApproval"
    /\ trace' = Append(trace, Ev("prompt", "exec"))
    /\ \E line \in Replies :
         /\ reply' = line
         /\ log' = IF Approved(line) THEN log
                   ELSE Append(log, "[INFO] User aborted before script execution.")
         /\ pc' = "Executing"
    /\ UNCHANGED << runs, argv, cwd, exit_code, user_request, plan_text,
                    code_text, fs, model_calls, writes, executed, last_saved,
                    saves, bench >>

\* a second prompt whose refusal sends the run back to the Code Stage, once
confirm_code_regenerate ==
    /\ pc = "AwaitExecApproval"
    /\ trace' = Append(trace, Ev("prompt", "exec"))
    /\ \E line \in Replies :
         /\ reply' = line
         /\ IF Approved(line)
            THEN /\ pc' = "Executing"
                 /\ UNCHANGED << exit_code, log >>
            ELSE IF Len(model_calls) < 3
            THEN /\ pc' = "CodeGen"
                 /\ UNCHANGED << exit_code, log >>
            ELSE /\ log' = Append(log, "[INFO] User aborted before script execution.")
                 /\ pc' = "Aborted"
                 /\ exit_code' = 0
    /\ UNCHANGED << runs, argv, cwd, user_request, plan_text, code_text, fs,
                    model_calls, writes, executed, last_saved, saves, bench >>

\* main, lines 187-190
confirm_code ==
    /\ pc = "AwaitExecApproval"
    /\ trace' = Append(trace, Ev("prompt", "exec"))
    /\ \E line \in Replies :
         /\ reply' = line
         /\ IF Approved(line)
            THEN /\ pc' = "Executing"
                 /\ UNCHANGED << exit_code, log >>
            ELSE /\ log' = Append(log, "[INFO] User aborted before script execution.")
                 /\ pc' = "Aborted"
                 /\ exit_code' = 0
    /\ UNCHANGED << runs, argv, cwd, user_request, plan_text, code_text, fs,
                    model_calls, writes, executed, last_saved, saves, bench >>

\* execute_script without its last except clause
ExecuteHandlers_narrow == { "CalledProcessError" }

\* the except clauses of execute_script (lines 146 and 148)
ExecuteHandlers == { "CalledProcessError", "Exception" }

\* the check execute_script makes before it runs anything (line 139)
valid_script_path(script_path) == EndsWith(script_path, PyExt)

\* how subprocess.run([sys.executable, script_path], check=True) can end:
\* the interpreter cannot be started (OSError), or it runs and ends with a
\* return code: 2 when it cannot open the file, 0 for a script with no
\* statement, and whatever the script decides otherwise
RunBehaviours(file) ==
    { [fault |-> "OSError", returncode |-> 0 - 1] }
    \cup { [fault |-> None, returncode |-> rc] :
             rc \in IF ~file.exists THEN { 2 }
                    ELSE IF Strip(file.data) = <<>> THEN { 0 }
                    ELSE { 0, 1 } }

execute_script(path, b) ==
    LET script_path == abspath(cwd, path)
        lg == <<"[INFO] Running the script at">>
    IN IF ~valid_script_path(script_path)
       THEN [run |-> NotExecuted,
             res |-> Return(<<>>, lg \o <<"[ERROR] not a valid Python extension">>)]
       ELSE LET run == [attempted |-> TRUE, launched |-> b.fault = None,
                        path |-> script_path, file |-> fs[script_path],
                        returncode |-> b.returncode]
                exc == IF b.fault # None THEN b.fault
                       ELSE IF b.returncode # 0 THEN "CalledProcessError"
                       ELSE None
            IN [run |-> run,
                res |-> IF exc = None
                        THEN Return(<<>>, lg \o <<"[INFO] Script executed successfully.">>)
                        ELSE IF IsSubclass(exc, "CalledProcessError")
                                /\ "CalledProcessError" \in ExecuteHandlers
                        THEN Return(<<>>, lg \o <<"[ERROR] Script execution failed with code">>)
                        ELSE IF Caught(exc, ExecuteHandlers)
                        THEN Return(<<>>, lg \o <<"[ERROR] An unexpected error occurred">>)
                        ELSE Raise(exc, lg)]

\* main, lines 193-195, with execute_script
run_script ==
    /\ pc = "Executing"
    /\ \E b \in RunBehaviours(fs[abspath(cwd, generated_filename)]) :
         LET e == execute_script(generated_filename, b) IN
            /\ executed' = e.run
            /\ trace' = trace \o run_events(e.run)
            /\ IF e.res.kind = "return"
               THEN /\ log' = log \o e.res.log \o <<"[INFO] Done.">>
                    /\ pc' = "Done"
                    /\ exit_code' = 0
               ELSE /\ Halt(e.res)
                    /\ log' = log \o e.res.log
    /\ UNCHANGED << runs, argv, cwd, user_request, plan_text, code_text, fs,
                    reply, model_calls, writes, last_saved, saves, bench >>

\* the user starts the program again, with any arguments, from any directory;
\* the files are as the earlier runs left them
new_run ==
    /\ pc \in Terminal
    /\ runs < MaxRuns
    /\ runs' = runs + 1
    /\ \E a \in Argvs, d \in Dirs : StartOfRun(a, d)
    /\ UNCHANGED << fs, last_saved, saves, bench >>

Next ==
    \/ main_start
    \/ plan_phase
    \/ confirm_plan
    \/ code_phase
    \/ save_prompt_to_file
    \/ save_code_to_file
    \/ confirm_code
    \/ run_script
    \/ new_run

Spec == Init /\ [][Next]_vars

\* the steps of a run: each is a call that returns, exits or raises once the
\* subprocess it waits for has ended or the line it reads has come
RunStep ==
    \/ main_start
    \/ plan_phase
    \/ confirm_plan
    \/ code_phase
    \/ save_prompt_to_file
    \/ save_code_to_file
    \/ confirm_code
    \/ run_script

\* a process that has just been started, in a directory where an earlier
\* run may have left its script
LiveInit ==
    /\ runs = 1
    /\ argv \in Argvs
    /\ cwd \in Dirs
    /\ pc = "Start"
    /\ exit_code = NotExited
    /\ user_request = <<>>
    /\ plan_text = <<>>
    /\ code_text = <<>>
    /\ \E old \in { Absent, File(<<"c", "\n">>) } :
         fs = [p \in Paths |-> IF p = abspath(cwd, ScriptName) THEN old ELSE Absent]
    /\ reply = NoReply
    /\ log = <<>>
    /\ model_calls = <<>>
    /\ writes = <<>>
    /\ executed = NotExecuted
    /\ last_saved = NeverSaved
    /\ saves = {}
    /\ trace = <<>>
    /\ t_in = NoBench
    /\ t_out = <<>>

\* one run, in which every wait comes to its end
LiveSpec == LiveInit /\ [][RunStep]_vars /\ WF_vars(RunStep)


\* --------------------------------------------------------------- test bench
\* The stages as functions, on many more texts than the runs above meet: the
\* bench calls one stage with a subprocess that prints the text it is given
\* and exits with code 0.
Pieces == { <<BQ>>, <<"p", "y", "t", "h", "o", "n">>, <<"x">>, <<" ">>, <<"\n">> }

RECURSIVE Texts(_)
Texts(n) ==
    IF n = 0 THEN { <<>> }
    ELSE { t \o p : t \in Texts(n - 1), p \in Pieces }

BenchTexts == UNION { Texts(n) : n \in 0..MaxPieces }

\* the text the bench works on: text as it is, or text between an opening
\* fence and a closing fence
BenchText(in) ==
    IF in.opener = <<>> THEN in.text ELSE in.opener \o in.text \o Fence

\* the subprocess of the bench
MockProc(out) == [fault |-> None, returncode |-> 0, out |-> out, err |-> <<>>]

BenchInit ==
    /\ runs = 1
    /\ argv = <<Prog>>
    /\ cwd = <<"/", "a">>
    /\ pc = "Start"
    /\ exit_code = NotExited
    /\ user_request = <<>>
    /\ plan_text = <<>>
    /\ code_text = <<>>
    /\ fs = [p \in Paths |-> Absent]
    /\ reply = NoReply
    /\ log = <<>>
    /\ model_calls = <<>>
    /\ writes = <<>>
    /\ executed = NotExecuted
    /\ last_saved = NeverSaved
    /\ saves = {}
    /\ trace = <<>>
    /\ t_out = <<>>
    /\ \/ \E r \in BenchTexts :
             t_in = [fn |-> "plan_phase", request |-> r, opener |-> <<>>,
                     text |-> <<" ", "1", "\n">>]
       \/ \E o \in { Fence, PyFence }, t \in BenchTexts :
             t_in = [fn |-> "code_phase", request |-> <<"r">>, opener |-> o,
                     text |-> t]
       \/ \E o \in { <<>>, Fence, PyFence }, t \in BenchTexts :
             t_in = [fn |-> "clean_code", request |-> <<>>, opener |-> o,
                     text |-> t]

main_vars == << runs, argv, cwd, pc, exit_code, user_request, plan_text,
               code_text, fs, reply, log, model_calls, writes, executed,
               last_saved, saves, trace >>

\* plan_phase (lines 59-67): the prompt, what query_ollama returned, and
\* what plan_phase returned
bench_plan_phase ==
    /\ t_in.fn = "plan_phase"
    /\ t_out = <<>>
    /\ LET full_prompt == plan_prompt(t_in.request)
           r == query_ollama(MockProc(BenchText(t_in)))
       IN t_out' = << full_prompt, r.value, plan_response(r.value) >>
    /\ UNCHANGED << main_vars, t_in >>

\* code_phase (lines 96-115): what code_phase returned
bench_code_phase ==
    /\ t_in.fn = "code_phase"
    /\ t_out = <<>>
    /\ LET r == query_ollama(MockProc(BenchText(t_in)))
       IN t_out' = << clean_code(r.value) >>
    /\ UNCHANGED << main_vars, t_in >>

\* the clean-up of line 113, on the text and then on its own result
bench_clean_code ==
    /\ t_in.fn = "clean_code"
    /\ Len(t_out) < 2
    /\ t_out' = Append(t_out, clean_code(IF t_out = <<>> THEN BenchText(t_in)
                                         ELSE t_out[Len(t_out)]))
    /\ UNCHANGED << main_vars, t_in >>

BenchNext ==
    \/ bench_plan_phase
    \/ bench_code_phase
    \/ bench_clean_code

BenchSpec == BenchInit /\ [][BenchNext]_vars

\* ------------------------------------------------------------ properties
ScriptPath(dir) == dir \o <<"/">> \o ScriptName

BundlePath(dir) == dir \o <<"/">> \o BundleName

InLog(m) == \E i \in DOMAIN log : log[i] = m

FailedCall(c) == c.fault # None \/ c.returncode # 0

\* the run has tried to write its script and the write failed
ScriptWriteFailed ==
    \E i \in DOMAIN writes : writes[i].path = ScriptPath(cwd) /\ ~writes[i].ok

\* the run has tried to write its bundle and the write failed
BundleWriteFailed ==
    \E i \in DOMAIN writes : writes[i].path = BundlePath(cwd) /\ ~writes[i].ok

\* C1: a run whose script write failed has halted with exit code 1, without
\* an answer read at the second prompt and without a call of the Execution
\* Gate.
C1_ScriptSaveFailureIsFatal ==
    ScriptWriteFailed =>
        /\ pc = "Fatal"
        /\ exit_code = 1
        /\ ~executed.attempted

\* C2: a run with a failed model call is halted with exit code 1, the failed
\* call is its last, and it has written no file.
C2_InvokerFailureIsFatal ==
    \A i \in DOMAIN model_calls :
        FailedCall(model_calls[i]) =>
            /\ pc = "Fatal"
            /\ exit_code = 1
            /\ i = Len(model_calls)
            /\ writes = <<>>
            /\ ~executed.attempted

C2_Witness ==
    /\ pc = "Fatal"
    /\ Len(model_calls) = 2
    /\ model_calls[1].stage = "plan"
    /\ model_calls[2].stage = "code"
    /\ model_calls[2].returncode = 1

Refusals == { <<"n">>, <<"y", "e", "s">>, <<>> }

\* the one prompt answered so far is the first, and the answer is a refusal
RefusedPlan == reply \in Refusals /\ Len(model_calls) < 2

\* C3: a run refused at the first prompt is Aborted with exit code 0; it has
\* made the plan call only, has written no file and has run nothing.
C3_PlanRefusalAborts ==
    RefusedPlan =>
        /\ pc = "Aborted"
        /\ exit_code = 0
        /\ Len(model_calls) = 1
        /\ model_calls[1].stage = "plan"
        /\ writes = <<>>
        /\ ~executed.attempted

C3_Witness ==
    /\ pc = "Aborted"
    /\ reply = <<"n">>
    /\ Len(model_calls) = 1
    /\ InLog("[INFO] User aborted after Plan Phase.")

\* the Execution Gate has been entered: its first line is in the log
GateEntered == InLog("[INFO] Running the script at")

\* C4: once the Execution Gate has run, the run is Done with exit code 0
\* whatever the script did; a non-zero exit of the script and a failure to
\* start it are each reported, and no run ever ends on an uncaught exception.
C4_ExecutionAlwaysDone ==
    /\ pc # "Crashed"
    /\ (GateEntered \/ executed.attempted) =>
        /\ pc = "Done"
        /\ exit_code = 0
        /\ InLog("[INFO] Done.")
        /\ (executed.launched /\ executed.returncode # 0)
             => InLog("[ERROR] Script execution failed with code")
        /\ (executed.attempted /\ ~executed.launched)
             => InLog("[ERROR] An unexpected error occurred")

C4_Witness ==
    /\ pc = "Done"
    /\ exit_code = 0
    /\ executed.launched
    /\ executed.returncode = 1

\* C5: whatever the Execution Gate hands to subprocess.run is an existing
\* file whose name ends in .py.
C5_GateValidatesPath ==
    executed.attempted =>
        /\ executed.file.exists
        /\ EndsWith(executed.path, PyExt)


\* C6 as written: the script file holds the code, and a newline, of the
\* latest run that reached save_code_to_file.
C6_FileIsLatestRunsCode ==
    last_saved.valid =>
        fs[last_saved.path] = File(last_saved.code \o <<"\n">>)

IsProperPrefix(s, t) == Len(s) < Len(t) /\ s = SubSeq(t, 1, Len(s))

\* C6: when the latest call of save_code_to_file wrote its file, the file
\* at the path that call resolved holds that run's code and one newline and
\* nothing else, whatever it held before; when the write failed, the file is
\* as it was before the call or holds a proper prefix of the new text.
C6_SuccessfulSaveReplaces ==
    last_saved.valid =>
        LET text == last_saved.code \o <<"\n">> IN
        /\ last_saved.ok => fs[last_saved.path] = File(text)
        /\ ~last_saved.ok =>
             \/ fs[last_saved.path] = last_saved.before
             \/ /\ fs[last_saved.path].exists
                /\ IsProperPrefix(fs[last_saved.path].data, text)

\* a second run has replaced the longer script an earlier run left
C6_Witness ==
    /\ runs = 2
    /\ last_saved.ok
    /\ last_saved.code = <<"c">>
    /\ last_saved.before = File(<<"d", "d", "\n">>)
    /\ fs[last_saved.path] = File(<<"c", "\n">>)

\* C7: a run whose bundle write failed has logged the failure and gone on
\* to the script write; once the script is written it is at the second
\* prompt or beyond it, as a run whose bundle write succeeded.
C7_BundleFailureNotFatal ==
    BundleWriteFailed =>
        /\ InLog("[ERROR] Could not save prompts to file")
        /\ pc \in { "PersistingScript", "AwaitExecApproval", "Executing",
                    "Done", "Aborted" }
        /\ pc = "PersistingScript" <=> Len(writes) = 1
        /\ Len(writes) = 2 => writes[2].path = ScriptPath(cwd)

C7_Witness ==
    /\ pc = "AwaitExecApproval"
    /\ Len(writes) = 2
    /\ ~writes[1].ok
    /\ writes[1].path = BundlePath(cwd)
    /\ writes[2].ok
    /\ fs[ScriptPath(cwd)] = File(code_text \o <<"\n">>)

\* C8: a run started without a request, or with the empty string as the
\* request, halts at Start with exit code 1, with no model call and no file
\* written.
C8_EmptyRequestIsFatal ==
    ((Len(argv) < 2 \/ argv[Len(argv)] = <<>>) /\ pc # "Start") =>
        /\ pc = "Fatal"
        /\ exit_code = 1
        /\ model_calls = <<>>
        /\ writes = <<>>

\* the latest prompt let the run go on
Proceeded == reply # NoReply /\ pc # "Aborted"

\* C9 as written: a prompt lets the run go on exactly when the line is y or Y.
C9_OnlyBareYProceeds ==
    reply # NoReply =>
        /\ Proceeded <=> reply \in { <<"y">>, <<"Y">> }
        /\ pc = "Aborted" => exit_code = 0

\* the line is one y or Y, with any whitespace before and after it
IsPaddedY(line) ==
    \E i \in DOMAIN line :
        /\ line[i] \in { "y", "Y" }
        /\ \A j \in DOMAIN line : j # i => line[j] \in { " ", "\t", "\n" }

\* C9: at each prompt the run goes on exactly when the line, with the
\* whitespace around it dropped, is the one character y or Y; any other
\* line ends the run as Aborted with exit code 0.
C9_PaddedYProceeds ==
    reply # NoReply =>
        /\ Proceeded <=> IsPaddedY(reply)
        /\ pc = "Aborted" => exit_code = 0

C9_Witness ==
    /\ pc = "Executing"
    /\ reply = <<" ", "y", "\t">>

\* C10 as written: every call of save_code_to_file, from whatever working
\* directory, resolves one and the same path.
C10_OneScriptPath ==
    \A s \in saves, t \in saves : s.path = t.path

\* C10: the script path of a run is generated_script.py in the working
\* directory the run was started from: runs from the same directory write
\* the same file, runs from different directories write different files.
C10_ScriptPathFollowsCwd ==
    /\ \A s \in saves : s.path = ScriptPath(s.cwd)
    /\ \A s \in saves, t \in saves : s.cwd = t.cwd <=> s.path = t.path

C10_Witness ==
    /\ runs = 2
    /\ Cardinality(saves) = 2
    /\ \A d \in Dirs : fs[ScriptPath(d)].exists


\* the second prompt has been shown
ExecPrompted == \E i \in DOMAIN trace : trace[i] = Ev("prompt", "exec")

\* the run has called execute_script
ExecCalled == \E i \in DOMAIN trace : trace[i] = Ev("call", "exec")

\* C11: the Execution Gate is called only in a run that reached the second
\* prompt and got an approval there, and a run approved there goes to the
\* Execution Gate; a run refused there is Aborted with exit code 0, has run
\* nothing, and the bundle and the script it wrote are as it wrote them.
C11_GateIffSecondApproval ==
    /\ (ExecCalled \/ executed.attempted \/ pc = "Executing") =>
          ExecPrompted /\ IsPaddedY(reply)
    /\ (ExecPrompted /\ IsPaddedY(reply)) => pc \in { "Executing", "Done" }
    /\ pc = "Done" => ExecCalled
    /\ (ExecPrompted /\ ~IsPaddedY(reply)) =>
          /\ pc = "Aborted"
          /\ exit_code = 0
          /\ ~ExecCalled
          /\ ~executed.attempted
          /\ Len(writes) = 2
          /\ writes[1].ok =>
               fs[BundlePath(cwd)] =
                   File(bundle_json(user_request, plan_text, code_text))
          /\ writes[2].ok => fs[ScriptPath(cwd)] = File(code_text \o <<"\n">>)

C11_Witness ==
    /\ pc = "Aborted"
    /\ ExecPrompted
    /\ reply = <<"n">>
    /\ writes[1].ok
    /\ writes[2].ok
    /\ fs[ScriptPath(cwd)] = File(code_text \o <<"\n">>)


\* C12: the clean-up applied to its own result gives that result again.
C12_CleanIdempotent ==
    (t_in.fn = "clean_code" /\ Len(t_out) = 2) => t_out[2] = t_out[1]

C12_Witness ==
    /\ t_in.fn = "clean_code"
    /\ t_in.opener = PyFence
    /\ t_in.text = <<"\n", "x", BQ, "x", "\n">>
    /\ t_out = << <<"x", BQ, "x">>, <<"x", BQ, "x">> >>

Contains(s, pat) ==
    \E i \in 1..(Len(s) - Len(pat) + 1) : SubSeq(s, i, i + Len(pat) - 1) = pat

\* C13 as written: for an answer made of an opening fence, any code text and
\* a closing fence, code_phase returns the code text stripped of the
\* whitespace around it, with no fence in it.
C13_FencedCodeRecovered ==
    (t_in.fn = "code_phase" /\ t_out # <<>>) =>
        /\ t_out[1] = Strip(t_in.text)
        /\ ~Contains(t_out[1], Fence)

\* the code text has no fence in it and makes none with a plain opener
FenceFree(in) ==
    /\ ~Contains(in.text, Fence)
    /\ in.opener = Fence => ~Contains(Fence \o in.text, PyFence)

\* C13: what code_phase returns never has a fence in it; and for an answer
\* made of an opening fence, a code text and a closing fence, where the code
\* text has no three backquotes in a row and, after a plain opener, does not
\* begin with the word python or with one or two backquotes and that word,
\* it is the code text stripped of the whitespace around it.
C13_FenceFreeCodeRecovered ==
    (t_in.fn = "code_phase" /\ t_out # <<>>) =>
        /\ ~Contains(t_out[1], Fence)
        /\ FenceFree(t_in) => t_out[1] = Strip(t_in.text)

C13_Witness ==
    /\ t_in.fn = "code_phase"
    /\ t_in.opener = Fence
    /\ t_in.text = <<"\n", "x", BQ, BQ, "\n">>
    /\ t_out = << <<"x", BQ, BQ>> >>

\* C14: a run calls query_ollama at most twice, first for the plan and then
\* for the code, and a call that failed is the last call of the run.
C14_NoRetry ==
    /\ Len(model_calls) <= 2
    /\ \A i \in DOMAIN model_calls :
         /\ model_calls[i].stage = (IF i = 1 THEN "plan" ELSE "code")
         /\ FailedCall(model_calls[i]) => i = Len(model_calls)

C14_Witness ==
    /\ pc = "Fatal"
    /\ Len(model_calls) = 2
    /\ ~FailedCall(model_calls[1])
    /\ FailedCall(model_calls[2])


\* v is s without the whitespace at its two ends
IsTrimOf(v, s) ==
    /\ v # <<>> => (v[1] \notin Whitespace /\ v[Len(v)] \notin Whitespace)
    /\ \E i \in 0..Len(s), j \in 0..Len(s) :
         /\ i + Len(v) + j = Len(s)
         /\ SubSeq(s, i + 1, i + Len(v)) = v
         /\ \A k \in (1..i) \cup ((Len(s) - j + 1)..Len(s)) : s[k] \in Whitespace

\* C15: a call whose subprocess ran to its end is judged by the return code
\* alone: with code 0 it returns the standard output without the whitespace
\* around it (and the plan is that text), whatever came on stderr; with
\* another code the process exits with code 1, whatever the output was.
C15_ExitCodeDecides ==
    \A i \in DOMAIN model_calls :
        LET c == model_calls[i] IN
        c.fault = None =>
            IF c.returncode = 0
            THEN /\ c.kind = "return"
                 /\ IsTrimOf(c.value, c.out)
                 /\ c.stage = "plan" => plan_text = c.value
            ELSE /\ c.kind = "exit"
                 /\ pc = "Fatal"
                 /\ exit_code = 1

\* a call that succeeded with text on stderr, and a later one that failed
\* with text on stdout
C15_Witness ==
    /\ Len(model_calls) = 2
    /\ model_calls[1].returncode = 0
    /\ model_calls[1].err # <<>>
    /\ model_calls[1].out # model_calls[1].value
    /\ model_calls[1].kind = "return"
    /\ model_calls[2].fault = None
    /\ model_calls[2].returncode # 0
    /\ model_calls[2].out # <<>>
    /\ exit_code = 1


\* the children started among the first i events of the run and not ended
\* by then
Alive(i) ==
    { j \in 1..i :
        /\ trace[j].ev = "start"
        /\ ~\E k \in (j + 1)..i : trace[k] = Ev("end", trace[j].of) }

C17_PlanPromptExact ==
    (t_in.fn = "plan_phase" /\ t_out # <<>>) =>
        LET prompt == t_out[1]
            R == t_in.request
        IN /\ Len(prompt) = Len(R) + 8
           /\ SubSeq(prompt, 1, 5) =
                  <<PLAN_SYSTEM_PROMPT, "\n", "\n", "User request:", "\n">>
           /\ SubSeq(prompt, 6, 5 + Len(R)) = R
           /\ SubSeq(prompt, 6 + Len(R), 8 + Len(R)) = <<"\n", "\n", "Plan:">>
           /\ t_out[3] = t_out[2]

C17_Witness ==
    /\ t_in.fn = "plan_phase"
    /\ t_in.request = <<" ", "x", "\n">>
    /\ Len(t_out) = 3
    /\ t_out[1] = <<PLAN_SYSTEM_PROMPT, "\n", "\n", "User request:", "\n",
                    " ", "x", "\n", "\n", "\n", "Plan:">>
    /\ t_out[3] = <<"1">>


\* C18: when execute_script has started the interpreter, the file it was
\* given holds the code of this run and a newline.
C18_RunsThisRunsCode ==
    executed.launched => executed.file = File(code_text \o <<"\n">>)


\* the events of a run that can be seen from outside, in the order the data
\* flows
FixedOrder ==
    << Ev("call", "plan"), Ev("prompt", "plan"), Ev("call", "code"),
       Ev("call", "bundle"), Ev("call", "script"), Ev("prompt", "exec"),
       Ev("call", "exec") >>

Visible(e) == e.ev \in { "call", "prompt" }

IsPrefix(s, t) == Len(s) <= Len(t) /\ SubSeq(t, 1, Len(s)) = s

\* C19: the model calls, prompts, saves and the execution of a run, in the
\* order they happened, are the first events of the fixed order: none twice,
\* none out of its place; the bundle save is attempted only after a Code
\* Stage that succeeded.
C19_EventsInFixedOrder ==
    /\ IsPrefix(SelectSeq(trace, Visible), FixedOrder)
    /\ (\E i \in DOMAIN trace : trace[i] = Ev("call", "bundle")) =>
           /\ Len(model_calls) = 2
           /\ ~FailedCall(model_calls[2])

C19_Witness ==
    /\ pc = "Done"
    /\ SelectSeq(trace, Visible) = FixedOrder
    /\ Len(trace) > Len(FixedOrder)


\* how a process that has ended has ended: Aborted or Done with exit code 0,
\* Fatal with exit code 1 and never by an exception nobody caught; exit
\* code 1 only without a request, after a model call that failed, or after
\* a script write that failed
Outcome ==
    /\ pc # "Crashed"
    /\ (pc \in Terminal) <=> (exit_code # NotExited)
    /\ exit_code \in { NotExited, 0, 1 }
    /\ (exit_code = 0) <=> (pc \in { "Aborted", "Done" })
    /\ (exit_code = 1) <=> (pc = "Fatal")
    /\ exit_code = 1 =>
         \/ Len(argv) < 2
         \/ model_calls # <<>> /\ FailedCall(model_calls[Len(model_calls)])
         \/ ScriptWriteFailed

\* C20: when every wait for a subprocess and every prompt returns, a run
\* that has started comes to its end, and it ends as Outcome says.
C20_EveryRunHalts ==
    /\ []Outcome
    /\ (pc \notin Terminal) ~> (pc \in Terminal)

\* a run that ended Done with exit code 0 although its script failed
C20_Witness ==
    /\ pc = "Done"
    /\ exit_code = 0
    /\ executed.launched
    /\ executed.returncode # 0
    /\ executed.file = File(<<"c", "\n">>)


====
